---- MODULE Spec2Model ----
(***************************************************************************)
(* Transfer-to-ledger import pipeline of odoo-web3 (the "import txs"       *)
(* pipeline): token transfers of a wallet are grouped by month, each month *)
(* gets a bank statement ("Feed YYYY-MM"), each transfer becomes a         *)
(* statement line unless a line with the same unique_import_id exists, and *)
(* statements of past months are balanced and posted.                      *)
(*                                                                         *)
(* Every remote call that changes the ledger, or whose failure is handled  *)
(* differently, is one step of the run; a failed call either aborts the    *)
(* run (the exception leaves main) or is swallowed where the code catches. *)
(***************************************************************************)
EXTENDS Integers, Sequences, FiniteSets, TLC

\* ------------------------------------------------------------- bounds ----
MaxBatch == 2       \* transfers returned by one fetch
MaxMonth == 3       \* the wall clock runs over months 1..MaxMonth
MaxRuns == 2        \* runs of the pipeline
MaxBanks == 2       \* res.partner.bank records (lookup failures duplicate them)
MaxPartners == 2    \* res.partner records
MaxFaults == 1      \* remote calls of the pipeline that fail
MinWhole == 2350    \* whole token amounts MinWhole..MaxWhole, and their halves
MaxWhole == 2375
MaxOps == 3         \* operations invoked on one OdooClient

\* -------------------------------------------------- program constants ----
journalId == 55
FakeStatementId == 777777
FakeBankId == 888888
PipelineDecimals == 18

tokenAddress == "0x420C"
\* An address is whose it is, the case of its hex digits and whether white
\* space pads it.
walletAddress == [who |-> "W", form |-> "checksum", ws |-> FALSE]

\* ---------------------------------------------------- decimal numbers ----
\* A raw token value is m * 10^k and an amount is m * 10^e (e may be
\* negative): BigInt values and the decimal strings of formatUnits, exactly.
RECURSIVE Pow10(_)
Pow10(n) == IF n <= 0 THEN 1 ELSE 10 * Pow10(n - 1)

RECURSIVE Norm(_)
Norm(a) ==
  IF a.m = 0 THEN [m |-> 0, e |-> 0]
  ELSE IF a.m % 10 = 0 THEN Norm([m |-> a.m \div 10, e |-> a.e + 1])
  ELSE a

\* viem formatUnits(value, decimals): the decimal value / 10^decimals, with
\* trailing zeros removed.
formatUnits(value, decimals) == Norm([m |-> value.m, e |-> value.k - decimals])

\* Number(l.amount) on the float grid of the ledger, in units of 10^-10.
Units(a) == a.m * Pow10(a.e + 10)
Cent == Pow10(8)

\* x.toFixed(2) converted back with unary plus: nearest cent, in grid units.
ToFixed2(x) ==
  IF x >= 0 THEN ((x + (Cent \div 2)) \div Cent) * Cent
  ELSE -(((-x + (Cent \div 2)) \div Cent) * Cent)

\* ------------------------------------------------- the transfer source ----
Hashes == {"h1", "h2", "h3"}

SourceAddr(w) == [who |-> w, form |-> "lower", ws |-> FALSE]

\* What a transaction does is fixed by its hash. h3 reports the sender of h1
\* in another spelling: mixed case, padded with white space.
TxBody(h) ==
  CASE h = "h1" -> [from |-> SourceAddr("A"), to |-> SourceAddr("W"),
                    value |-> [m |-> 14, k |-> 15], tokenDecimal |-> 18]
    [] h = "h2" -> [from |-> SourceAddr("W"), to |-> SourceAddr("B"),
                    value |-> [m |-> 6, k |-> 15], tokenDecimal |-> 18]
    [] h = "h3" -> [from |-> [who |-> "A", form |-> "checksum", ws |-> TRUE],
                    to |-> SourceAddr("W"),
                    value |-> [m |-> 1, k |-> 8], tokenDecimal |-> 6]

\* Where it is mined is not: h1 is first seen in month 1 and, after a chain
\* reorganisation, in another block of month 2. timeStamp is <<month, day>>.
Mined(h) ==
  CASE h = "h1" -> {[transactionIndex |-> 0, timeStamp |-> <<1, 15>>],
                    [transactionIndex |-> 1, timeStamp |-> <<2, 15>>]}
    [] h = "h2" -> {[transactionIndex |-> 0, timeStamp |-> <<1, 20>>]}
    [] h = "h3" -> {[transactionIndex |-> 0, timeStamp |-> <<2, 20>>]}

\* EtherscanTokenTransfer records
Transfers ==
  { [hash |-> h, transactionIndex |-> b.transactionIndex, timeStamp |-> b.timeStamp,
     from |-> TxBody(h).from, to |-> TxBody(h).to,
     value |-> TxBody(h).value, tokenDecimal |-> TxBody(h).tokenDecimal] :
    <<h, b>> \in UNION { {h} \X Mined(h) : h \in Hashes } }

Batches == UNION { [1..n -> Transfers] : n \in 0..MaxBatch }

Range(s) == { s[i] : i \in DOMAIN s }

\* new Date(timeStamp * 1000).toISOString().split("T")[0]
ISODate(timeStamp) == [month |-> timeStamp[1], day |-> timeStamp[2]]

monthKeyFromISO(iso) == iso.month

\* byMonth: a Map in insertion order, month key -> transfers of that month.
RECURSIVE MonthKeys(_)
MonthKeys(txs) ==
  IF txs = <<>> THEN <<>>
  ELSE LET mk == monthKeyFromISO(ISODate(Head(txs).timeStamp))
           rest == MonthKeys(SelectSeq(Tail(txs),
                     LAMBDA r : monthKeyFromISO(ISODate(r.timeStamp)) # mk))
       IN <<mk>> \o rest

ItemsOf(txs, mk) ==
  SelectSeq(txs, LAMBDA r : monthKeyFromISO(ISODate(r.timeStamp)) = mk)

GroupByMonth(txs) ==
  LET keys == MonthKeys(txs)
  IN [g \in 1..Len(keys) |-> [monthKey |-> keys[g], items |-> ItemsOf(txs, keys[g])]]

\* ------------------------------------------------------------- state ----
VARIABLES
  statements,      \* account.bank.statement, by id
  lines,           \* account.bank.statement.line, by id
  banks,           \* res.partner.bank, by id
  partners,        \* res.partner, by id
  now,             \* wall-clock month
  runs,            \* runs started so far
  pc,              \* the remote call main is about to make
  dryRun,
  currentMonthKey,
  byMonth,
  mi,              \* position in byMonth
  ri,              \* position in items
  stId,
  partnerBankId,
  pid,
  closeId,         \* statementId of closeStatementIfNeeded
  closeRet,        \* its caller: "month" (main) or "sweep" (closeAllPast...)
  start,
  endReal,
  allSts,
  si,              \* position in allSts
  swallowed,       \* a failed call of this run was caught and logged
  lines0,          \* number of lines when the run, or the run it retries, started
  sts0,            \* number of statements then
  skipped,         \* transfers of this run skipped as duplicates
  rel,             \* this batch against the previous run's: "same", "plusone",
                   \* "retry" (the same batch after an aborted real run), "other"
  prev,            \* the previous batch, when rel is "same" or "plusone"
  env,             \* what the pre-flight of the run has just found: login, journal,
                   \* accounts
  warned,          \* it has warned that the journal has no suspense account
  client,          \* an OdooClient of the library, driven by a caller of its own
  faults,          \* remote calls of the pipeline that have failed so far
  source,          \* an EtherscanClient: the last reply it got and what it made of it
  amounts,         \* a raw token amount, formatted and parsed back
  race,            \* two invocations of main at work on one ledger
  ev0              \* partners and bank accounts on file when main took up the
                   \* current transfer

vars == <<statements, lines, banks, partners, now, runs, pc, dryRun, currentMonthKey,
          byMonth, mi, ri, stId, partnerBankId, pid, closeId, closeRet, start,
          endReal, allSts, si, swallowed, lines0, sts0, skipped, rel, prev,
          env, warned, client, faults, ev0, source, amounts, race>>

\* the components modelled apart from the pipeline, which it leaves alone
apart == <<client, source, amounts, race>>

\* ---------------------------------------------------------- pre-flight ----
\* The chart of accounts: 1 is a liquidity account, 2 a current asset open to
\* reconciliation, 3 a current asset that is not; a receivable and a payable
\* account exist or not (partnerAccounts).
account_type(a) == IF a = 1 THEN "asset_cash" ELSE "asset_current"
reconcile(a) == a = 2

EnvNone ==
  [auth |-> FALSE, found |-> FALSE, default_account_id |-> 0,
   suspense_account_id |-> 0, partnerAccounts |-> FALSE]

\* login answer, account.journal read (0 stands for false), search of the
\* receivable and payable accounts; without a login nothing is read, and
\* a journal that is not found has no fields
Envs ==
  { e \in [auth : BOOLEAN, found : BOOLEAN, default_account_id : {0, 1},
           suspense_account_id : {0, 1, 2, 3}, partnerAccounts : BOOLEAN] :
      /\ ~e.auth => e = EnvNone
      /\ ~e.found => e = [EnvNone EXCEPT !.auth = e.auth] }

\* if (journal.default_account_id) ... else Deno.exit(1)
DefaultAccountIgnored(e) == TRUE
DefaultAccountSet(e) == e.default_account_id # 0

\* defaultAccountId === suspenseAccountId; an unset default account is false
\* and an unset suspense account is null, which are not equal
SameAccount(e) ==
  e.default_account_id # 0 /\ e.default_account_id = e.suspense_account_id

\* main from authenticate to the fetch: TRUE when no Deno.exit(1) is reached
PreflightPasses(e) ==
  /\ e.auth
  /\ e.found
  /\ DefaultAccountSet(e)
  /\ ~SameAccount(e)
  /\ (e.suspense_account_id # 0
        => ~(/\ account_type(e.suspense_account_id) \in {"liability_current", "asset_current"}
             /\ ~reconcile(e.suspense_account_id)))
  /\ e.partnerAccounts

\* console.warn: journal has no suspense account configured
SuspenseWarning(e) == e.auth /\ e.found /\ e.suspense_account_id = 0

\* ------------------------------- two invocations of main, one ledger ----
\* The ledger as two invocations running side by side see it: the periods of
\* the month of the batch, the lines by unique_import_id, the bank accounts
\* of the counterparty and the partners named Unknown. An invocation is at
\* the call site pc, with out calls sent and not yet answered.
RaceHashes == {"h1", "h2"}
RaceBatches == {<<"h1">>, <<"h1", "h2">>}
\* the batch of the second invocation: it overlaps the batch of the first
Overlap == <<"h1">>
Invocations == {1, 2}

NewInvocation(batch) ==
  [pc |-> "st_search", out |-> 0, batch |-> batch, ri |-> 1, stId |-> 0,
   closeId |-> 0, swept |-> FALSE, todo |-> <<>>]

NoRace ==
  [periods |-> <<>>, count |-> [h \in RaceHashes |-> 0], banks |-> 0, unknown |-> 0,
   past |-> FALSE, inv |-> [i \in Invocations |-> NewInvocation(<<>>)]]

\* the call sites of main and of the functions it awaits
CallSites == {"st_search", "st_create", "bank_find", "partner_find", "partner_create",
              "bank_create", "bank_read", "partner_read", "dup_search", "line_create",
              "close_read", "close_sum", "close_write", "close_post", "sweep_search"}

\* await: the code after a call runs when the call has settled
AwaitedNever(p) == TRUE
Awaited(p) == p.out = 0

\* found.length of getOrCreateMonthlyStatement
PeriodFoundNever(ps) == FALSE
PeriodFound(ps) == ps # <<>>

\* the head of the loop over the items of the month, and what follows it:
\* the close of a past month, then the sweep
ItemOrClose(p, past) ==
  IF p.ri <= Len(p.batch) THEN [p EXCEPT !.pc = "bank_find"]
  ELSE IF past THEN [p EXCEPT !.pc = "close_read", !.closeId = p.stId]
  ELSE [p EXCEPT !.pc = "sweep_search"]

\* after closeStatementIfNeeded: the sweep, then the periods it found
AfterClose(p) ==
  IF ~p.swept THEN [p EXCEPT !.pc = "sweep_search"]
  ELSE IF p.todo # <<>>
       THEN [p EXCEPT !.pc = "close_read", !.closeId = Head(p.todo),
                      !.todo = Tail(p.todo)]
       ELSE [p EXCEPT !.pc = "done"]

RECURSIVE UpTo(_)
UpTo(n) == IF n = 0 THEN <<>> ELSE Append(UpTo(n - 1), n)

\* The ledger answers the call the invocation i has sent from its call site:
\* it does what the call asks and the invocation goes on from the answer.
Answered(r, i) ==
  LET p == [r.inv[i] EXCEPT !.out = @ - 1]
      h == p.batch[p.ri]
      go(q) == [r EXCEPT !.inv[i] = q]
  IN CASE p.pc = "st_search" ->
            IF PeriodFound(r.periods)
            THEN go(ItemOrClose([p EXCEPT !.stId = 1], r.past))
            ELSE go([p EXCEPT !.pc = "st_create"])
       [] p.pc = "st_create" ->
            [r EXCEPT !.periods = Append(@, [endSet |-> FALSE, posted |-> FALSE]),
                      !.inv[i] = ItemOrClose([p EXCEPT !.stId = Len(r.periods) + 1],
                                             r.past)]
       [] p.pc = "bank_find" ->
            go([p EXCEPT !.pc = IF r.banks > 0 THEN "bank_read" ELSE "partner_find"])
       [] p.pc = "partner_find" ->
            go([p EXCEPT !.pc = IF r.unknown > 0 THEN "bank_create"
                                ELSE "partner_create"])
       [] p.pc = "partner_create" ->
            [r EXCEPT !.unknown = @ + 1, !.inv[i] = [p EXCEPT !.pc = "bank_create"]]
       [] p.pc = "bank_create" ->
            [r EXCEPT !.banks = @ + 1, !.inv[i] = [p EXCEPT !.pc = "bank_read"]]
       [] p.pc = "bank_read" -> go([p EXCEPT !.pc = "partner_read"])
       [] p.pc = "partner_read" -> go([p EXCEPT !.pc = "dup_search"])
       [] p.pc = "dup_search" ->
            IF r.count[h] > 0
            THEN go(ItemOrClose([p EXCEPT !.ri = @ + 1], r.past))
            ELSE go([p EXCEPT !.pc = "line_create"])
       [] p.pc = "line_create" ->
            [r EXCEPT !.count[h] = @ + 1,
                      !.inv[i] = ItemOrClose([p EXCEPT !.ri = @ + 1], r.past)]
       [] p.pc = "close_read" ->
            go([p EXCEPT !.pc = IF r.periods[p.closeId].endSet THEN "close_post"
                                ELSE "close_sum"])
       [] p.pc = "close_sum" -> go([p EXCEPT !.pc = "close_write"])
       [] p.pc = "close_write" ->
            [r EXCEPT !.periods[p.closeId].endSet = TRUE,
                      !.inv[i] = [p EXCEPT !.pc = "close_post"]]
       [] p.pc = "close_post" ->
            [r EXCEPT !.periods[p.closeId].posted = TRUE, !.inv[i] = AfterClose(p)]
       [] p.pc = "sweep_search" ->
            go(AfterClose([p EXCEPT !.swept = TRUE,
                                    !.todo = IF r.past THEN UpTo(Len(r.periods))
                                             ELSE <<>>]))

\* The call fails: the catch around button_post goes on, any other failure
\* ends the invocation.
Failed(r, i) ==
  LET p == [r.inv[i] EXCEPT !.out = @ - 1]
  IN [r EXCEPT !.inv[i] = IF p.pc = "close_post" THEN AfterClose(p)
                          ELSE [p EXCEPT !.pc = "aborted"]]

\* ------------------------------------------------------- token amounts ----
\* Natural numbers of any size: digits to the base 10^4, the least first,
\* no leading zero digit. BigInt values and the mantissas of doubles.
RECURSIVE BTrim(_)
BTrim(a) ==
  IF a # <<>> /\ a[Len(a)] = 0 THEN BTrim(SubSeq(a, 1, Len(a) - 1)) ELSE a

RECURSIVE BMulC(_, _, _)
BMulC(a, s, c) ==
  IF a = <<>>
  THEN IF c = 0 THEN <<>> ELSE <<c % 10000>> \o BMulC(<<>>, s, c \div 10000)
  ELSE LET t == Head(a) * s + c
       IN <<t % 10000>> \o BMulC(Tail(a), s, t \div 10000)

\* a * s for a small s
BMul(a, s) == BTrim(BMulC(a, s, 0))

RECURSIVE Pow2(_)
Pow2(n) == IF n = 0 THEN 1 ELSE 2 * Pow2(n - 1)

RECURSIVE BInc(_)
BInc(a) ==
  IF a = <<>> THEN <<1>>
  ELSE IF Head(a) < 9999 THEN <<Head(a) + 1>> \o Tail(a)
  ELSE <<0>> \o BInc(Tail(a))

RECURSIVE BDivR(_, _, _)
BDivR(a, s, i) ==
  IF i > Len(a) THEN [q |-> <<>>, r |-> 0]
  ELSE LET h == BDivR(a, s, i + 1)
           cur == h.r * 10000 + a[i]
       IN [q |-> <<cur \div s>> \o h.q, r |-> cur % s]

\* quotient and remainder of a by a small s
BDiv(a, s) == LET h == BDivR(a, s, 1) IN [q |-> BTrim(h.q), r |-> h.r]

\* a * 10^n, four decimal digits at a time
RECURSIVE Times10(_, _)
Times10(a, n) ==
  IF a = <<>> THEN <<>>
  ELSE IF n >= 4 THEN Times10(<<0>> \o a, n - 4)
  ELSE BMul(a, Pow10(n))

\* a * 2^n, 13 bits at a time
RECURSIVE Times2(_, _)
Times2(a, n) == IF n >= 13 THEN Times2(BMul(a, 8192), n - 13) ELSE BMul(a, Pow2(n))

RECURSIVE IntBits(_)
IntBits(n) == IF n = 0 THEN 0 ELSE 1 + IntBits(n \div 2)

\* the number of bits of a, taken 13 at a time
RECURSIVE BitLen(_)
BitLen(a) ==
  IF a = <<>> THEN 0
  ELSE IF Len(a) > 1 THEN 13 + BitLen(BDiv(a, 8192).q)
  ELSE IntBits(a[1])

\* a shifted right by k bits; sticky tells whether a bit shifted out was set
RECURSIVE ShrSticky(_, _, _)
ShrSticky(a, k, sticky) ==
  IF k = 0 THEN [n |-> a, sticky |-> sticky]
  ELSE LET by == IF k >= 13 THEN 13 ELSE k
           h == BDiv(a, Pow2(by))
       IN ShrSticky(h.q, k - by, sticky \/ h.r # 0)

\* a shifted right by k >= 1 bits; guard is the last bit shifted out, sticky
\* tells whether a bit shifted out before it was set
Shr(a, k, sticky) ==
  LET low == ShrSticky(a, k - 1, sticky)
      h == BDiv(low.n, 2)
  IN [n |-> h.q, guard |-> h.r = 1, sticky |-> low.sticky]

\* a double is m * 2^e with m below 2^53; its canonical form has m odd
RECURSIVE Canonical(_)
Canonical(x) ==
  IF x.m = <<>> THEN [m |-> <<>>, e |-> 0]
  ELSE LET h == BDiv(x.m, 2)
           k == BDiv(x.m, 8192)
       IN IF k.r = 0 THEN Canonical([m |-> k.q, e |-> x.e + 13])
          ELSE IF h.r = 0 THEN Canonical([m |-> h.q, e |-> x.e + 1])
          ELSE x

\* the double nearest to n, or to a value just above n when sticky: round to
\* nearest, ties to even, to 53 bits
RoundToDouble(n, sticky) ==
  LET len == BitLen(n)
  IN IF len <= 53 THEN Canonical([m |-> n, e |-> 0])
     ELSE LET t == Shr(n, len - 53, sticky)
              odd == BDiv(t.n, 2).r = 1
              up == t.guard /\ (t.sticky \/ odd)
          IN Canonical([m |-> IF up THEN BInc(t.n) ELSE t.n, e |-> len - 53])

\* Number(value) of a BigInt
Number(value) == RoundToDouble(value, FALSE)

\* n divided by 10^d, four decimal digits at a time; sticky tells whether
\* the division left a remainder
RECURSIVE Div10(_, _, _)
Div10(n, d, sticky) ==
  IF d = 0 THEN [n |-> n, sticky |-> sticky]
  ELSE LET by == IF d >= 4 THEN 4 ELSE d
           h == BDiv(n, Pow10(by))
       IN Div10(h.q, d - by, sticky \/ h.r # 0)

\* x / Number(BigInt(10 ** decimals)): the divisor is 10^decimals exactly for
\* decimals up to 22, and the quotient is rounded once. 120 more bits than
\* the mantissa leave the quotient more than 53.
DividedByPow10(x, decimals) ==
  IF x.m = <<>> THEN x
  ELSE LET q == Div10(Times2(x.m, 120), decimals, FALSE)
           r == RoundToDouble(q.n, q.sticky)
       IN Canonical([m |-> r.m, e |-> r.e + x.e - 120])

\* formatTokenAmount(amount, decimals)
formatTokenAmount(amount, decimals) == DividedByPow10(Number(amount), decimals)

\* parseTokenAmount(amount, decimals) for 0 <= amount < 10^21:
\* amount.toFixed(decimals) is the decimal numeral of the integer nearest to
\* amount * 10^decimals, the larger of two, with a point before its last
\* `decimals` digits; the point is taken out and the digits are read
parseTokenAmount(amount, decimals) ==
  LET t == Times10(amount.m, decimals)
  IN IF amount.e >= 0 THEN Times2(t, amount.e)
     ELSE LET h == Shr(t, -amount.e, FALSE)
          IN IF h.guard THEN BInc(h.n) ELSE h.n

\* the raw value of n / 2^j tokens of `decimals` decimals
Raw(n, j, decimals) ==
  IF j = 0 THEN Times10(<<n>>, decimals)
  ELSE BDiv(Times10(<<n>>, decimals), 2).q

Wholes == {1, 3, 100} \cup (MinWhole..MaxWhole)
Inputs == [n : Wholes, j : {0, 1}, decimals : {6, 18}]
NoAmount == [n |-> 0, j |-> 0, decimals |-> 0, done |-> FALSE, raw |-> <<>>,
             formatted |-> [m |-> <<>>, e |-> 0], parsed |-> <<>>]

\* ----------------------------------------------------- EtherscanClient ----
\* A reply of the API to a tokentx request: the HTTP status is OK or not, the
\* body is JSON or not, and the JSON holds status, message and result.
Replies ==
  [ok : BOOLEAN, json : BOOLEAN, status : {"0", "1", "none"},
   message : {"No transactions found", "NOTOK", "OK", "none"},
   result : {"[]", "[t]", "Max rate limit reached", "null"}]

Array_isArray(result) == result \in {"[]", "[t]"}

\* request(): the result of the reply, or the message of the Error thrown
request(reply) ==
  IF ~reply.ok THEN [thrown |-> TRUE, value |-> "Etherscan API request failed"]
  ELSE IF ~reply.json THEN [thrown |-> TRUE, value |-> "SyntaxError"]
  ELSE IF reply.status = "0" /\ reply.message # "No transactions found"
       THEN [thrown |-> TRUE, value |-> "Etherscan API error"]
       ELSE [thrown |-> FALSE, value |-> reply.result]

\* getTokenTransfers(): no message of an Error thrown by request() includes
\* "No transactions found", so its catch block rethrows
getTokenTransfers(reply) ==
  LET r == request(reply)
  IN IF r.thrown THEN [thrown |-> TRUE, value |-> r.value]
     ELSE [thrown |-> FALSE, value |-> IF Array_isArray(r.value) THEN r.value ELSE "[]"]

NoRequest == [reply |-> "none", thrown |-> FALSE, value |-> "none"]

\* ---------------------------------------------------------- OdooClient ----
\* The data operations of class OdooClient. uid 0 stands for null and for a
\* login answer of false.
Rethrows == {"getLatestTransactions", "getJournals", "getLatestInvoices",
             "getInvoiceDetails", "createJournalEntry", "getAccounts",
             "createPartner", "createBankAccount"}
ReturnsNull == {"getAccountIdByName", "getPartnerIdByBankIdentifier",
                "getPartnerIdByName", "findBankAccountByIdentifier"}
DryOps == {"createJournalEntry", "postJournalEntry", "createPartner",
           "createBankAccount"}
Ops == Rethrows \cup ReturnsNull \cup {"checkJournalEntryExists", "postJournalEntry"}

\* what the server does with one call: an answer with a value in it, an
\* answer with none (empty list, no id), or a failure (HTTP, Odoo error)
Answers == {"value", "empty", "error"}

\* answers of common.login: a uid, false, or a failure
Logins == {[ok |-> TRUE, uid |-> 7], [ok |-> TRUE, uid |-> 0], [ok |-> FALSE, uid |-> 0]}

\* new OdooClient(config, dryRun). authed, sent, n, op and outcome are the
\* observer's: whether an authenticate() has succeeded, the calls sent to the
\* server, the operations invoked, the last one and how it ended.
NewClient(dry) ==
  [uid |-> 0, dryRun |-> dry, authed |-> FALSE, sent |-> 0, n |-> 0,
   op |-> "constructor", outcome |-> "none"]

\* if (!this.uid) throw new Error("Not authenticated. Call authenticate() first.")
NotAuthenticatedUnlessDry(c) == c.uid = 0 /\ ~c.dryRun
NotAuthenticated(c) == c.uid = 0

\* the value the catch block of op returns for a failed call
CatchValue(op) ==
  IF op = "checkJournalEntryExists" THEN "true"
  ELSE IF op = "postJournalEntry" THEN "false"
  ELSE "empty"

\* one data operation on client c when the server would answer a: the calls
\* sent so far and how the operation ends
Invoke(c, op, a) ==
  IF NotAuthenticated(c)
  THEN [sent |-> c.sent, outcome |-> "Not authenticated"]
  ELSE IF c.dryRun /\ op \in DryOps
       THEN [sent |-> c.sent, outcome |-> "dry"]
       ELSE [sent |-> c.sent + 1,
             outcome |-> IF a # "error" THEN a
                         ELSE IF op \in Rethrows THEN "error"
                         ELSE CatchValue(op)]

Thrown == {"Not authenticated", "error"}

\* findOrCreateBankAccount: findBankAccountByIdentifier, then
\* getPartnerIdByName, createPartner and createBankAccount as far as needed
findOrCreateBankAccount(c, a1, a2, a3, a4) ==
  LET r1 == Invoke(c, "findBankAccountByIdentifier", a1)
      c1 == [c EXCEPT !.sent = r1.sent]
      r2 == Invoke(c1, "getPartnerIdByName", a2)
      c2 == [c EXCEPT !.sent = r2.sent]
      r3 == IF r2.outcome = "empty" THEN Invoke(c2, "createPartner", a3) ELSE r2
      c3 == [c EXCEPT !.sent = r3.sent]
      r4 == Invoke(c3, "createBankAccount", a4)
  IN IF r1.outcome \in Thrown \cup {"value"} THEN r1
     ELSE IF r2.outcome \in Thrown THEN r2
     ELSE IF r3.outcome \in Thrown THEN r3
     ELSE r4

\* the calls main makes for one transfer: for (const r of items) { ... }
EventPcs == {"bank_find", "partner_find", "partner_create", "bank_create",
             "partner_ensure", "dup_search", "line_create"}
NoEvent == [partners |-> 0, banks |-> 0]

Running == pc \notin {"idle", "done", "aborted", "exited"}

InitPipeline ==
  /\ statements = <<>>
  /\ lines = <<>>
  /\ banks = <<>>
  /\ partners = <<>>
  /\ now = 1
  /\ runs = 0
  /\ pc = "idle"
  /\ dryRun = FALSE
  /\ currentMonthKey = 1
  /\ byMonth = <<>>
  /\ mi = 0
  /\ ri = 0
  /\ stId = 0
  /\ partnerBankId = 0
  /\ pid = 0
  /\ closeId = 0
  /\ closeRet = "none"
  /\ start = 0
  /\ endReal = 0
  /\ allSts = <<>>
  /\ si = 0
  /\ swallowed = FALSE
  /\ lines0 = 0
  /\ sts0 = 0
  /\ skipped = 0
  /\ rel = "other"
  /\ prev = {}
  /\ env = EnvNone
  /\ warned = FALSE
  /\ faults = 0
  /\ ev0 = NoEvent

Init ==
  /\ InitPipeline
  /\ client = NewClient(FALSE)
  /\ source = NoRequest
  /\ amounts = NoAmount
  /\ race = NoRace

\* ------------------------------------------------------ control flow ----
\* The next remote call of the run; sw: a failure has been swallowed so far.
\* main reads nothing of the journal after the pre-flight: what it found is
\* kept up to the first call behind the fetch.
Ctl(p, m, r, st, pb, cid, cret, s, sw) ==
  /\ pc' = p
  /\ mi' = m
  /\ ri' = r
  /\ stId' = st
  /\ partnerBankId' = pb
  /\ closeId' = cid
  /\ closeRet' = cret
  /\ si' = s
  /\ swallowed' = sw
  /\ env' = EnvNone
  /\ warned' = FALSE
  /\ ev0' = IF p = "bank_find"
            THEN [partners |-> Len(partners), banks |-> Len(banks)]
            ELSE IF p \in EventPcs THEN ev0 ELSE NoEvent
  /\ UNCHANGED <<dryRun, currentMonthKey, byMonth, lines0, sts0, rel, prev>>

\* for (const [monthKey, items] of byMonth), then the sweep
GotoMonth(i, sw) ==
  IF i > Len(byMonth)
  THEN Ctl("sweep_search", 0, 0, 0, 0, 0, "none", 0, sw)
  ELSE Ctl("st_search", i, 0, 0, 0, 0, "none", 0, sw)

\* if (monthKey < currentMonthKey) at the end of a month group
AutoCloseLate(monthKey, cmk) == monthKey <= cmk
AutoClose(monthKey, cmk) == monthKey < cmk

\* if (stMonth < currentMonthKey) in closeAllPastMonthlyStatements, behind
\* the match of the statement name against /^Feed (\d{4}-\d{2})$/
SweepNone(st, cmk) == FALSE
SweepClosesAll(st, cmk) == st.name.prefix = "Feed"
SweepCloses(st, cmk) == st.name.prefix = "Feed" /\ st.name.monthKey < cmk

Min(S) == CHOOSE x \in S : \A y \in S : x <= y

\* main returns ("done") or an exception leaves it ("aborted"). What the run
\* imported is remembered for the next run only after a complete, real run
\* in which no call failed; the batch and the size of the ledger at the start
\* are remembered after an aborted real run, for the run that retries it.
Finish(p, sw) ==
  LET clean == p = "done" /\ ~dryRun /\ ~sw
      broken == p = "aborted" /\ ~dryRun
      retried == p = "done" /\ rel = "retry"
  IN /\ pc' = p
     /\ mi' = 0
     /\ ri' = 0
     /\ stId' = 0
     /\ partnerBankId' = 0
     /\ closeId' = 0
     /\ closeRet' = "none"
     /\ si' = 0
     /\ swallowed' = sw
     /\ start' = 0
     /\ endReal' = 0
     /\ allSts' = <<>>
     /\ byMonth' = IF clean \/ broken \/ retried THEN byMonth ELSE <<>>
     /\ lines0' = IF clean \/ broken \/ retried THEN lines0 ELSE 0
     /\ sts0' = IF clean \/ broken \/ retried THEN sts0 ELSE 0
     /\ skipped' = IF clean \/ retried THEN skipped ELSE 0
     /\ rel' = IF clean \/ retried THEN rel ELSE "other"
     /\ prev' = IF clean THEN prev ELSE {}
     /\ env' = EnvNone
     /\ warned' = FALSE
     /\ ev0' = NoEvent
     /\ UNCHANGED <<dryRun, currentMonthKey>>

\* for (const st of allSts) from position j on
SweepFrom(sts, j, sw) ==
  LET cand == { x \in j..Len(sts) : SweepCloses(sts[x], currentMonthKey) }
  IN IF cand = {}
     THEN Finish("done", sw)
     ELSE /\ Ctl("close_read", 0, 0, 0, 0, sts[Min(cand)].id, "sweep", Min(cand), sw)
          /\ start' = 0
          /\ skipped' = skipped
          /\ endReal' = 0
          /\ allSts' = sts

\* return from closeStatementIfNeeded
LeaveClose(sw) ==
  IF closeRet = "month"
  THEN /\ GotoMonth(mi + 1, sw)
       /\ start' = 0
       /\ skipped' = skipped
       /\ endReal' = 0
       /\ allSts' = allSts
  ELSE SweepFrom(allSts, si + 1, sw)

\* the end of one month group of main
MonthEnd ==
  IF AutoClose(byMonth[mi].monthKey, currentMonthKey)
  THEN Ctl("close_read", mi, 0, stId, 0, stId, "month", 0, swallowed)
  ELSE GotoMonth(mi + 1, swallowed)

\* the end of one iteration of for (const r of items), `continue` included
AfterItem ==
  IF ri < Len(byMonth[mi].items)
  THEN Ctl("bank_find", mi, ri + 1, stId, 0, 0, "none", 0, swallowed)
  ELSE MonthEnd

\* ------------------------------------------------- what main computes ----
\* const partnerAddress = r.from === walletAddress ? r.to : r.from
partnerAddress(r) == IF r.from = walletAddress THEN r.to ELSE r.from

toLowerCase(a) == [a EXCEPT !.form = "lower"]

\* iban.replace(/\s+/g, "").toUpperCase()
NormalizeAccKeepsSpace(iban) == [iban EXCEPT !.form = "upper"]
NormalizeAcc(iban) == [iban EXCEPT !.form = "upper", !.ws = FALSE]

\* the statement line main builds for transfer r. unique_import_id is
\* r.hash.trim(): a hash of the transfer source is 0x and 64 hex digits and
\* holds no white space; "" stands for a payload without unique_import_id.
PayloadNoImportId(r, st) ==
  [statement_id |-> st,
   date |-> ISODate(r.timeStamp),
   payment_ref |-> <<r.hash, r.transactionIndex, tokenAddress>>,
   amount |-> formatUnits(r.value, PipelineDecimals),
   unique_import_id |-> ""]
Payload(r, st) ==
  [statement_id |-> st,
   date |-> ISODate(r.timeStamp),
   payment_ref |-> <<r.hash, r.transactionIndex, tokenAddress>>,
   amount |-> formatUnits(r.value, PipelineDecimals),
   unique_import_id |-> r.hash]

\* search_read on account.bank.statement by journal_id and name
StatementSearchNone(sts, jid, mk) == {}
StatementSearch(sts, jid, mk) ==
  { id \in DOMAIN sts :
      sts[id].journal_id = jid /\ sts[id].name = [prefix |-> "Feed", monthKey |-> mk] }

\* search_read on account.bank.statement by journal_id, fields id and name,
\* in id order
RECURSIVE JournalStatementsFrom(_, _, _)
JournalStatementsFrom(sts, jid, i) ==
  IF i > Len(sts) THEN <<>>
  ELSE (IF sts[i].journal_id = jid THEN <<[id |-> i, name |-> sts[i].name]>> ELSE <<>>)
       \o JournalStatementsFrom(sts, jid, i + 1)

JournalStatements(sts, jid) == JournalStatementsFrom(sts, jid, 1)

\* search on account.bank.statement.line by unique_import_id
DupSearchNone(ls, uid) == {}
DupSearch(ls, uid) == { id \in DOMAIN ls : ls[id].unique_import_id = uid }

\* findBankAccountByIdentifier: search_read on res.partner.bank by acc_number
BankSearch(bs, acc) == { id \in DOMAIN bs : bs[id].acc_number = acc }

\* getPartnerIdByName: search_read on res.partner, name ilike
PartnerSearchNone(ps, name) == {}
PartnerSearch(ps, name) == { id \in DOMAIN ps : ps[id].name = name }

\* sumStatementLineAmounts
RECURSIVE SumUnits(_, _)
SumUnits(ls, st) ==
  IF ls = <<>> THEN 0
  ELSE (IF Head(ls).statement_id = st THEN Units(Head(ls).amount) ELSE 0)
       + SumUnits(Tail(ls), st)

sumStatementLineAmounts(ls, st) == ToFixed2(SumUnits(ls, st))

OpeningBalances == {0}

BatchSet(bm) == UNION { Range(bm[g].items) : g \in DOMAIN bm }

Item == byMonth[mi].items[ri]
Acc == NormalizeAcc(toLowerCase(partnerAddress(Item)))

\* ------------------------------------------------------------ actions ----
\* main stopped by Deno.exit(1) in the pre-flight: nothing is fetched
Exit(dry, e) ==
  /\ ~Running
  /\ runs < MaxRuns
  /\ ~PreflightPasses(e)
  /\ runs' = runs + 1
  /\ pc' = "exited"
  /\ dryRun' = dry
  /\ env' = e
  /\ warned' = SuspenseWarning(e)
  /\ currentMonthKey' = now
  /\ byMonth' = <<>>
  /\ lines0' = Len(lines)
  /\ sts0' = Len(statements)
  /\ skipped' = 0
  /\ rel' = "other"
  /\ prev' = {}
  /\ swallowed' = FALSE
  /\ pid' = 0
  /\ mi' = 0
  /\ UNCHANGED <<statements, lines, banks, partners, now, apart, faults, ev0, ri, stId,
                 partnerBankId,
                 closeId, closeRet, si, start, endReal, allSts>>

\* a read of the pre-flight or the fetch of the transfers fails: the
\* exception leaves main before anything is written
PreflightThrows(dry) ==
  /\ faults < MaxFaults
  /\ faults' = faults + 1
  /\ ~Running
  /\ runs < MaxRuns
  /\ runs' = runs + 1
  /\ pc' = "aborted"
  /\ dryRun' = dry
  /\ env' = EnvNone
  /\ warned' = FALSE
  /\ currentMonthKey' = now
  /\ byMonth' = <<>>
  /\ lines0' = Len(lines)
  /\ sts0' = Len(statements)
  /\ skipped' = 0
  /\ rel' = "other"
  /\ prev' = {}
  /\ swallowed' = FALSE
  /\ pid' = 0
  /\ mi' = 0
  /\ UNCHANGED <<statements, lines, banks, partners, now, apart, ev0, ri, stId, partnerBankId,
                 closeId, closeRet, si, start, endReal, allSts>>

\* main, from the pre-flight over the fetch of the transfers to the first
\* month group
StartRun(batch, dry, e) ==
  /\ ~Running
  /\ runs < MaxRuns
  /\ PreflightPasses(e)
  /\ env' = e
  /\ warned' = SuspenseWarning(e)
  /\ runs' = runs + 1
  /\ LET bs == Range(batch)
         lastOk == pc = "done" /\ ~dryRun /\ ~swallowed
         last == BatchSet(byMonth)
         broken == pc = "aborted" /\ ~dryRun
         r == IF lastOk /\ bs = last THEN "same"
              ELSE IF lastOk /\ last \subseteq bs /\ Cardinality(bs \ last) = 1
                   THEN "plusone"
              ELSE IF broken /\ ~dry /\ GroupByMonth(batch) = byMonth
                   THEN "retry" ELSE "other"
     IN /\ rel' = r
        /\ prev' = IF r \in {"same", "plusone"} THEN last ELSE {}
        /\ lines0' = IF r = "retry" THEN lines0 ELSE Len(lines)
        /\ sts0' = IF r = "retry" THEN sts0 ELSE Len(statements)
  /\ dryRun' = dry
  /\ currentMonthKey' = now
  /\ byMonth' = GroupByMonth(batch)
  /\ pc' = IF batch = <<>> THEN "sweep_search" ELSE "st_search"
  /\ mi' = IF batch = <<>> THEN 0 ELSE 1
  /\ swallowed' = FALSE
  /\ skipped' = 0
  /\ pid' = 0
  /\ UNCHANGED <<statements, lines, banks, partners, now, apart, faults, ev0, ri, stId,
                 partnerBankId,
                 closeId, closeRet, si, start, endReal, allSts>>

\* getOrCreateMonthlyStatement: the search_read
StSearch ==
  /\ pc = "st_search"
  /\ LET found == StatementSearch(statements, journalId, byMonth[mi].monthKey)
     IN IF found # {}
        THEN \E id \in found : Ctl("bank_find", mi, 1, id, 0, 0, "none", 0, swallowed)
        ELSE IF dryRun
             THEN Ctl("bank_find", mi, 1, FakeStatementId, 0, 0, "none", 0, swallowed)
             ELSE Ctl("st_create", mi, 0, 0, 0, 0, "none", 0, swallowed)
  /\ UNCHANGED <<statements, lines, banks, partners, now, apart, faults, runs, pid, start, endReal,
                 allSts, skipped>>

\* getOrCreateMonthlyStatement: the create
StCreate ==
  /\ pc = "st_create"
  /\ \E b \in OpeningBalances :
       statements' = Append(statements,
         [journal_id |-> journalId,
          name |-> [prefix |-> "Feed", monthKey |-> byMonth[mi].monthKey],
          posted |-> FALSE, balance_start |-> b,
          end_set |-> FALSE, balance_end_real |-> 0])
  /\ Ctl("bank_find", mi, 1, Len(statements) + 1, 0, 0, "none", 0, swallowed)
  /\ UNCHANGED <<lines, banks, partners, now, apart, faults, runs, pid, start, endReal,
                 allSts, skipped>>

\* findOrCreatePartnerBank: findBankAccountByIdentifier answers
BankFind ==
  /\ pc = "bank_find"
  /\ LET found == BankSearch(banks, Acc)
     IN IF found # {}
        THEN \E id \in found :
               Ctl(IF dryRun THEN "dup_search" ELSE "partner_ensure",
                   mi, ri, stId, id, 0, "none", 0, swallowed)
        ELSE IF dryRun
             THEN Ctl("dup_search", mi, ri, stId, FakeBankId, 0, "none", 0, swallowed)
             ELSE Ctl("partner_find", mi, ri, stId, 0, 0, "none", 0, swallowed)
  /\ UNCHANGED <<statements, lines, banks, partners, now, apart, faults, runs, pid, start, endReal,
                 allSts, skipped>>

\* findBankAccountByIdentifier catches the failed call and returns null
BankFindFails ==
  /\ faults < MaxFaults
  /\ faults' = faults + 1
  /\ pc = "bank_find"
  /\ Len(banks) < MaxBanks
  /\ IF dryRun
     THEN Ctl("dup_search", mi, ri, stId, FakeBankId, 0, "none", 0, TRUE)
     ELSE Ctl("partner_find", mi, ri, stId, 0, 0, "none", 0, TRUE)
  /\ UNCHANGED <<statements, lines, banks, partners, now, apart, runs, pid, start, endReal,
                 allSts, skipped>>

\* findOrCreatePartnerByName("Unknown"): getPartnerIdByName answers
PartnerFind ==
  /\ pc = "partner_find"
  /\ LET found == PartnerSearch(partners, "Unknown")
     IN IF found # {}
        THEN \E id \in found :
               /\ pid' = id
               /\ Ctl("bank_create", mi, ri, stId, 0, 0, "none", 0, swallowed)
        ELSE /\ pid' = 0
             /\ Ctl("partner_create", mi, ri, stId, 0, 0, "none", 0, swallowed)
  /\ UNCHANGED <<statements, lines, banks, partners, now, apart, faults, runs, start, endReal,
                 allSts, skipped>>

\* getPartnerIdByName catches the failed call and returns null
PartnerFindFails ==
  /\ faults < MaxFaults
  /\ faults' = faults + 1
  /\ pc = "partner_find"
  /\ Len(partners) < MaxPartners
  /\ pid' = 0
  /\ Ctl("partner_create", mi, ri, stId, 0, 0, "none", 0, TRUE)
  /\ UNCHANGED <<statements, lines, banks, partners, now, apart, runs, start, endReal,
                 allSts, skipped>>

\* createPartner("Unknown", undefined, receivable, payable)
PartnerCreate ==
  /\ pc = "partner_create"
  /\ partners' = Append(partners,
       [name |-> "Unknown", receivable |-> TRUE, payable |-> TRUE])
  /\ pid' = Len(partners) + 1
  /\ Ctl("bank_create", mi, ri, stId, 0, 0, "none", 0, swallowed)
  /\ UNCHANGED <<statements, lines, banks, now, apart, faults, runs, start, endReal,
                 allSts, skipped>>

\* createBankAccount(acc, pid)
BankCreate ==
  /\ pc = "bank_create"
  /\ banks' = Append(banks, [acc_number |-> Acc, partner_id |-> pid])
  /\ pid' = 0
  /\ Ctl("partner_ensure", mi, ri, stId, Len(banks) + 1, 0, "none", 0, swallowed)
  /\ UNCHANGED <<statements, lines, partners, now, apart, faults, runs, start, endReal,
                 allSts, skipped>>

\* main reads the bank account's partner and gives it the default
\* receivable and payable accounts where it has none
PartnerEnsure ==
  /\ pc = "partner_ensure"
  /\ LET p == banks[partnerBankId].partner_id
     IN partners' =
          IF p \in DOMAIN partners
          THEN [partners EXCEPT ![p].receivable = TRUE, ![p].payable = TRUE]
          ELSE partners
  /\ Ctl("dup_search", mi, ri, stId, partnerBankId, 0, "none", 0, swallowed)
  /\ UNCHANGED <<statements, lines, banks, now, apart, faults, runs, pid, start, endReal,
                 allSts, skipped>>

\* the search for a line with payload.unique_import_id, made when the payload
\* has one; a hit is `continue`, and a dry run only logs the line it would
\* create
LineSearchIgnoresDry ==
  /\ pc = "dup_search"
  /\ LET uid == Payload(Item, stId).unique_import_id
         dup == IF uid = "" THEN {} ELSE DupSearch(lines, uid)
     IN /\ IF dup # {}
           THEN AfterItem
           ELSE Ctl("line_create", mi, ri, stId, partnerBankId, 0, "none", 0, swallowed)
        /\ skipped' = IF dup # {} THEN skipped + 1 ELSE skipped
  /\ UNCHANGED <<statements, lines, banks, partners, now, apart, faults, runs, pid, start, endReal,
                 allSts>>
LineSearch ==
  /\ pc = "dup_search"
  /\ LET uid == Payload(Item, stId).unique_import_id
         dup == IF uid = "" THEN {} ELSE DupSearch(lines, uid)
     IN /\ IF dup # {} \/ dryRun
           THEN AfterItem
           ELSE Ctl("line_create", mi, ri, stId, partnerBankId, 0, "none", 0, swallowed)
        /\ skipped' = IF dup # {} THEN skipped + 1 ELSE skipped
  /\ UNCHANGED <<statements, lines, banks, partners, now, apart, faults, runs, pid, start, endReal,
                 allSts>>

\* create on account.bank.statement.line
LineCreate ==
  /\ pc = "line_create"
  /\ lines' = Append(lines, Payload(Item, stId))
  /\ AfterItem
  /\ UNCHANGED <<statements, banks, partners, now, apart, faults, runs, pid, start, endReal,
                 allSts, skipped>>

\* st.balance_end_real != null
EndRealNever(st) == FALSE
EndRealSet(st) == st.end_set

\* closeStatementIfNeeded: the read of balance_start and balance_end_real
CloseRead ==
  /\ pc = "close_read"
  /\ IF closeId \notin DOMAIN statements
     THEN LeaveClose(swallowed)
     ELSE IF EndRealSet(statements[closeId])
          THEN /\ IF dryRun
                  THEN LeaveClose(swallowed)
                  ELSE /\ Ctl("close_post", mi, 0, stId, 0, closeId, closeRet, si, swallowed)
                       /\ start' = statements[closeId].balance_start
                       /\ skipped' = skipped
                       /\ endReal' = statements[closeId].balance_end_real
                       /\ allSts' = allSts
          ELSE /\ Ctl("close_sum", mi, 0, stId, 0, closeId, closeRet, si, swallowed)
               /\ start' = statements[closeId].balance_start
               /\ skipped' = skipped
               /\ endReal' = 0
               /\ allSts' = allSts
  /\ UNCHANGED <<statements, lines, banks, partners, now, apart, faults, runs, pid>>

\* closeStatementIfNeeded: sumStatementLineAmounts and endReal
CloseSum ==
  /\ pc = "close_sum"
  /\ IF dryRun
     THEN LeaveClose(swallowed)
     ELSE /\ Ctl("close_write", mi, 0, stId, 0, closeId, closeRet, si, swallowed)
          /\ start' = start
          /\ skipped' = skipped
          /\ endReal' = ToFixed2(start + sumStatementLineAmounts(lines, closeId))
          /\ allSts' = allSts
  /\ UNCHANGED <<statements, lines, banks, partners, now, apart, faults, runs, pid>>

\* closeStatementIfNeeded: write of balance_end_real
CloseWrite ==
  /\ pc = "close_write"
  /\ statements' = [statements EXCEPT ![closeId].balance_end_real = endReal,
                                      ![closeId].end_set = TRUE]
  /\ Ctl("close_post", mi, 0, stId, 0, closeId, closeRet, si, swallowed)
  /\ UNCHANGED <<lines, banks, partners, now, apart, faults, runs, pid, start, endReal, allSts, skipped>>

\* closeStatementIfNeeded: button_post; on a posted statement it changes
\* nothing, whether the ledger answers or raises "already posted"
ClosePost ==
  /\ pc = "close_post"
  /\ statements' = [statements EXCEPT ![closeId].posted = TRUE]
  /\ LeaveClose(swallowed)
  /\ UNCHANGED <<lines, banks, partners, now, apart, faults, runs, pid>>

\* button_post fails on an unposted statement; the catch logs and goes on
ClosePostFails ==
  /\ faults < MaxFaults
  /\ faults' = faults + 1
  /\ pc = "close_post"
  /\ ~statements[closeId].posted
  /\ LeaveClose(TRUE)
  /\ UNCHANGED <<statements, lines, banks, partners, now, apart, runs, pid>>

\* closeAllPastMonthlyStatements: search_read of the journal's statements
SweepSearch ==
  /\ pc = "sweep_search"
  /\ SweepFrom(JournalStatements(statements, journalId), 1, swallowed)
  /\ UNCHANGED <<statements, lines, banks, partners, now, apart, faults, runs, pid>>

\* a remote call outside any try block fails: the exception leaves main
Throwing == {"st_search", "st_create", "partner_create", "bank_create",
             "partner_ensure", "dup_search", "line_create", "close_read",
             "close_sum", "close_write", "sweep_search"}

Abort ==
  /\ faults < MaxFaults
  /\ faults' = faults + 1
  /\ pc \in Throwing
  /\ Finish("aborted", swallowed)
  /\ pid' = 0
  /\ UNCHANGED <<statements, lines, banks, partners, now, apart, runs>>

\* the wall clock reaches the next month between two runs
Tick ==
  /\ ~Running
  /\ now < MaxMonth
  /\ now' = now + 1
  /\ UNCHANGED <<statements, lines, banks, partners, runs, pc, dryRun, currentMonthKey,
                 byMonth, mi, ri, stId, partnerBankId, pid, closeId, closeRet,
                 start, endReal, allSts, si, swallowed, lines0, sts0, skipped, rel, prev,
                 env, warned, apart, faults, ev0>>

Next ==
  \/ \E batch \in Batches, dry \in BOOLEAN, e \in Envs : StartRun(batch, dry, e)
  \/ \E dry \in BOOLEAN, e \in Envs : Exit(dry, e)
  \/ \E dry \in BOOLEAN : PreflightThrows(dry)
  \/ StSearch
  \/ StCreate
  \/ BankFind
  \/ BankFindFails
  \/ PartnerFind
  \/ PartnerFindFails
  \/ PartnerCreate
  \/ BankCreate
  \/ PartnerEnsure
  \/ LineSearch
  \/ LineCreate
  \/ CloseRead
  \/ CloseSum
  \/ CloseWrite
  \/ ClosePost
  \/ ClosePostFails
  \/ SweepSearch
  \/ Abort
  \/ Tick

Spec == Init /\ [][Next]_vars

\* ------------------------------------------------- a caller of OdooClient ----
pipeline == <<statements, lines, banks, partners, now, runs, pc, dryRun, currentMonthKey,
              byMonth, mi, ri, stId, partnerBankId, pid, closeId, closeRet, start,
              endReal, allSts, si, swallowed, lines0, sts0, skipped, rel, prev,
              env, warned, faults, ev0>>

InitClient ==
  /\ InitPipeline
  /\ client \in { NewClient(dry) : dry \in BOOLEAN }
  /\ source = NoRequest
  /\ amounts = NoAmount
  /\ race = NoRace

\* authenticate(): uid is assigned when the login call answers, and a failed
\* call is caught
Authenticate(l) ==
  /\ client.n < MaxOps
  /\ client' = [client EXCEPT !.uid = IF l.ok THEN l.uid ELSE @,
                              !.authed = @ \/ (l.ok /\ l.uid # 0),
                              !.sent = @ + 1,
                              !.n = @ + 1,
                              !.op = "authenticate",
                              !.outcome = IF l.ok /\ l.uid # 0 THEN "true" ELSE "false"]
  /\ UNCHANGED <<pipeline, source, amounts, race>>

Operation(op, a) ==
  /\ client.n < MaxOps
  /\ LET r == Invoke(client, op, a)
     IN client' = [client EXCEPT !.sent = r.sent, !.n = @ + 1, !.op = op,
                                 !.outcome = r.outcome]
  /\ UNCHANGED <<pipeline, source, amounts, race>>

FindOrCreateBankAccount(a1, a2, a3, a4) ==
  /\ client.n < MaxOps
  /\ LET r == findOrCreateBankAccount(client, a1, a2, a3, a4)
     IN client' = [client EXCEPT !.sent = r.sent, !.n = @ + 1,
                                 !.op = "findOrCreateBankAccount",
                                 !.outcome = r.outcome]
  /\ UNCHANGED <<pipeline, source, amounts, race>>

NextClient ==
  \/ \E l \in Logins : Authenticate(l)
  \/ \E op \in Ops, a \in Answers : Operation(op, a)
  \/ \E a1, a2, a3, a4 \in Answers : FindOrCreateBankAccount(a1, a2, a3, a4)

SpecClient == InitClient /\ [][NextClient]_vars

\* ------------------------------------------- a caller of EtherscanClient ----
InitSource == Init

GetTokenTransfers(reply) ==
  /\ LET r == getTokenTransfers(reply)
     IN source' = [reply |-> reply, thrown |-> r.thrown, value |-> r.value]
  /\ UNCHANGED <<pipeline, client, amounts, race>>

NextSource == \E reply \in Replies : GetTokenTransfers(reply)

SpecSource == InitSource /\ [][NextSource]_vars

\* ------------------------------------------------ token amount round trip ----
InitAmount ==
  /\ InitPipeline
  /\ client = NewClient(FALSE)
  /\ source = NoRequest
  /\ amounts \in { [NoAmount EXCEPT !.n = i.n, !.j = i.j, !.decimals = i.decimals] :
                   i \in Inputs }
  /\ race = NoRace

\* parseTokenAmount(formatTokenAmount(raw, decimals), decimals)
RoundTrip ==
  /\ ~amounts.done
  /\ LET raw == Raw(amounts.n, amounts.j, amounts.decimals)
         formatted == formatTokenAmount(raw, amounts.decimals)
     IN amounts' = [amounts EXCEPT !.done = TRUE, !.raw = raw,
                                   !.formatted = formatted,
                                   !.parsed = parseTokenAmount(formatted, amounts.decimals)]
  /\ UNCHANGED <<pipeline, client, source, race>>

NextAmount == RoundTrip

SpecAmount == InitAmount /\ [][NextAmount]_vars

\* ------------------------------------- two invocations against one ledger ----
InitRace ==
  /\ InitPipeline
  /\ client = NewClient(FALSE)
  /\ source = NoRequest
  /\ amounts = NoAmount
  /\ race \in { [NoRace EXCEPT !.periods = ps, !.banks = b, !.unknown = u, !.past = past,
                               !.inv = [i \in Invocations |->
                                          NewInvocation(IF i = 1 THEN b1 ELSE b2)]] :
                ps \in {<<>>, <<[endSet |-> FALSE, posted |-> FALSE]>>},
                b \in {0, 1}, u \in {0, 1}, past \in BOOLEAN,
                b1 \in RaceBatches, b2 \in {Overlap} }

\* await callRPC(...): the invocation sends the call of its call site
Call(i) ==
  /\ race.inv[i].pc \in CallSites
  /\ Awaited(race.inv[i])
  /\ race.inv[i].out <= 1
  /\ race' = [race EXCEPT !.inv[i].out = @ + 1]
  /\ UNCHANGED <<pipeline, client, source, amounts>>

Return(i) ==
  /\ race.inv[i].pc \in CallSites
  /\ race.inv[i].out > 0
  /\ race' = Answered(race, i)
  /\ UNCHANGED <<pipeline, client, source, amounts>>

Fail(i) ==
  /\ race.inv[i].pc \in CallSites
  /\ race.inv[i].out > 0
  /\ race' = Failed(race, i)
  /\ UNCHANGED <<pipeline, client, source, amounts>>

NextRace ==
  \/ \E i \in Invocations : Call(i)
  \/ \E i \in Invocations : Return(i)
  \/ \E i \in Invocations : Fail(i)

SpecRace == InitRace /\ [][NextRace]_vars

\* ------------------------------------------------------------- claims ----
CleanDone == pc = "done" /\ ~dryRun /\ ~swallowed

Created == { i \in DOMAIN lines : i > lines0 }

IsPosted(id) == statements[id].posted
MonthOf(id) == statements[id].name.monthKey
BatchMonths == { byMonth[g].monthKey : g \in DOMAIN byMonth }

\* C1: no two statement lines carry the same dedup key
\* hash:transactionIndex:tokenAddress, whatever runs, batches and aborts
\* produced the ledger.
C1_UniqueDedupKey ==
  \A i, j \in DOMAIN lines :
    i # j => lines[i].payment_ref # lines[j].payment_ref

\* a real run has skipped a transfer whose key is already in the ledger
C1_Witness ==
  /\ pc = "done"
  /\ ~dryRun
  /\ skipped > 0
  /\ Len(lines) >= 2

\* C2: a run whose transfer set equals that of the previous complete,
\* failure-free run creates no line: the lines are those the first run left.
C2_IdempotentImport == rel = "same" => Len(lines) = lines0

C2_Witness ==
  /\ CleanDone
  /\ rel = "same"
  /\ skipped >= 2
  /\ lines0 >= 2

\* C3: after importing T, re-importing T plus one transfer whose dedup key
\* is not in the ledger creates exactly one line, the new transfer's.
C3_NewKeyImported ==
  (CleanDone /\ rel = "plusone") =>
    LET new == CHOOSE r \in BatchSet(byMonth) \ prev : TRUE
        key == Payload(new, 0).payment_ref
    IN (\A i \in 1..lines0 : lines[i].payment_ref # key) =>
         /\ Cardinality(Created) = 1
         /\ \A i \in Created : lines[i].payment_ref = key

\* C4: a line's amount is positive when the tracked wallet received the
\* transfer and negative when it sent it.
C4_DirectionLaw ==
  \A i \in DOMAIN lines :
    LET tx == TxBody(lines[i].payment_ref[1])
    IN /\ tx.to.who = walletAddress.who => lines[i].amount.m > 0
       /\ tx.from.who = walletAddress.who => lines[i].amount.m < 0

\* C5: the magnitude of a line's amount is rawValue / 10^decimals with the
\* transfer's own token decimals.
C5_OwnDecimals ==
  \A i \in DOMAIN lines :
    LET tx == TxBody(lines[i].payment_ref[1])
        a == lines[i].amount
    IN [a EXCEPT !.m = IF a.m < 0 THEN -a.m ELSE a.m]
         = Norm([m |-> tx.value.m, e |-> tx.value.k - tx.tokenDecimal])

\* C6: when a real run completes and no call failed, every period whose
\* month key is before the current month key is Closed, the periods without
\* a transfer in the batch included.
C6_PastPeriodsClosed ==
  CleanDone =>
    \A id \in DOMAIN statements :
      MonthOf(id) < currentMonthKey => IsPosted(id)

\* the sweep closed a period that got no transfer in this batch
C6_Witness ==
  /\ CleanDone
  /\ \E id \in DOMAIN statements :
       /\ MonthOf(id) < currentMonthKey
       /\ MonthOf(id) \notin BatchMonths
       /\ IsPosted(id)
       /\ \E l \in Range(lines) : l.statement_id = id

\* C7: no period whose month key is the current month key or later is ever
\* balanced or posted.
C7_CurrentStaysOpen ==
  \A id \in DOMAIN statements :
    MonthOf(id) >= now => ~IsPosted(id) /\ ~statements[id].end_set

\* a run closed a past period and left the current month's period open
C7_Witness ==
  /\ pc = "done"
  /\ ~dryRun
  /\ \E id \in DOMAIN statements : MonthOf(id) = currentMonthKey /\ ~IsPosted(id)
  /\ \E id \in DOMAIN statements : MonthOf(id) < currentMonthKey /\ IsPosted(id)

\* C8: a Closed period's closing balance is its opening balance plus the sum
\* of the lines it owns now, rounded to 2 decimals.
C8_ClosedBalance ==
  \A id \in DOMAIN statements :
    IsPosted(id) =>
      statements[id].balance_end_real
        = ToFixed2(statements[id].balance_start + SumUnits(lines, id))

C10_OnePeriodPerMonth ==
  /\ \A i, j \in DOMAIN statements :
       (i # j /\ statements[i].journal_id = statements[j].journal_id)
         => statements[i].name # statements[j].name
  /\ (~dryRun /\ pc \in {"bank_find", "partner_find", "partner_create", "bank_create",
                         "partner_ensure", "dup_search", "line_create"})
       => /\ stId \in DOMAIN statements
          /\ MonthOf(stId) = byMonth[mi].monthKey

\* a second run works on the period an earlier run created and filled
C10_Witness ==
  /\ pc = "line_create"
  /\ stId \in DOMAIN statements
  /\ \E i \in 1..lines0 : lines[i].statement_id = stId

\* C11: a failed call of counterparty resolution (partner create, bank
\* account create, partner read or write) or of line creation for one event
\* does not end the run: main goes on with the events that remain.
C11_EventFailureCaught ==
  [][(pc \in {"partner_create", "bank_create", "partner_ensure", "line_create"})
       => (pc' # "aborted")]_vars

\* C12: a failed call while the period of one month is obtained or created
\* does not end the run: main goes on with the other month groups.
C12_PeriodFailureLocal ==
  [][(pc \in {"st_search", "st_create"}) => (pc' # "aborted")]_vars

\* One uninterrupted real run of main over the month groups gs, as a function
\* of the ledger it starts from: S the statements (journal_id and name), L
\* the lines.
RECURSIVE UninterruptedItems(_, _, _)
UninterruptedItems(L, items, st) ==
  IF items = <<>> THEN L
  ELSE LET r == Head(items)
           uid == Payload(r, st).unique_import_id
           dup == IF uid = "" THEN {} ELSE DupSearch(L, uid)
       IN UninterruptedItems(IF dup # {} THEN L ELSE Append(L, Payload(r, st)),
                             Tail(items), st)

RECURSIVE UninterruptedRun(_, _, _)
UninterruptedRun(S, L, gs) ==
  IF gs = <<>> THEN [sts |-> S, lines |-> L]
  ELSE LET g == Head(gs)
           found == StatementSearch(S, journalId, g.monthKey)
           st == IF found # {} THEN CHOOSE id \in found : TRUE ELSE Len(S) + 1
           S2 == IF found # {} THEN S
                 ELSE Append(S, [journal_id |-> journalId,
                                 name |-> [prefix |-> "Feed", monthKey |-> g.monthKey]])
       IN UninterruptedRun(S2, UninterruptedItems(L, g.items, st), Tail(gs))

PeriodsOf(sts) ==
  [i \in DOMAIN sts |-> [journal_id |-> sts[i].journal_id, name |-> sts[i].name]]

\* C13: when a real run aborted at some remote call and the pipeline is run
\* again with the same batch and completes, the lines and the periods of the
\* ledger are those one uninterrupted run of that batch leaves, started from
\* the ledger the aborted run started from: no line and no period twice, no
\* line missing.
C13_SafeReinvocation ==
  (pc = "done" /\ rel = "retry") =>
    LET ref == UninterruptedRun(PeriodsOf(SubSeq(statements, 1, sts0)),
                                SubSeq(lines, 1, lines0), byMonth)
    IN /\ lines = ref.lines
       /\ PeriodsOf(statements) = ref.sts

\* the aborted run had created a period and a line, the second run skipped
\* that line and created another
C13_Witness ==
  /\ pc = "done"
  /\ rel = "retry"
  /\ skipped > 0
  /\ Len(lines) >= lines0 + 2
  /\ Len(statements) > sts0

\* C14: the close procedure applied to a period that is already posted
\* changes no period: the balance is not computed or written again, the
\* post leaves the period posted, no error leaves the procedure at the post
\* and none is counted as a failure.
C14_IdempotentClose ==
  [][(/\ pc \in {"close_read", "close_sum", "close_write", "close_post"}
      /\ closeId \in DOMAIN statements
      /\ IsPosted(closeId))
       => (/\ statements' = statements
           /\ pc \in {"close_read", "close_post"}
           /\ (pc = "close_post" => (pc' # "aborted" /\ swallowed' = swallowed)))]_vars

\* the sweep posts again a period that the month group of this run closed
C14_Witness ==
  /\ pc = "close_post"
  /\ ~dryRun
  /\ closeRet = "sweep"
  /\ closeId \in DOMAIN statements
  /\ IsPosted(closeId)
  /\ MonthOf(closeId) \in BatchMonths

\* C15: a failed call of the close procedure of one period (the read, the
\* line sum, the balance write or the post) does not end the run: the
\* periods that remain are still closed.
C15_CloseFailureLocal ==
  [][(pc \in {"close_read", "close_sum", "close_write", "close_post"})
       => (pc' # "aborted")]_vars

\* C16: a dry run makes no create, write or post call: no step of it changes
\* the partners, bank accounts, periods or lines, and the identifiers it
\* works with are those of existing records or the synthetic ones.
C16_DryRunFrame ==
  [][dryRun' =>
       (/\ <<statements, lines, banks, partners>>' = <<statements, lines, banks, partners>>
        /\ pc' \notin {"st_create", "partner_create", "bank_create", "partner_ensure",
                       "line_create", "close_write", "close_post"}
        /\ (pc' \in {"bank_find", "dup_search"} =>
              LET found == StatementSearch(statements', journalId, byMonth'[mi'].monthKey)
              IN IF found = {} THEN stId' = FakeStatementId ELSE stId' \in found)
        /\ (pc' = "dup_search" =>
              LET r == byMonth'[mi'].items[ri']
                  found == BankSearch(banks', NormalizeAcc(toLowerCase(partnerAddress(r))))
              IN partnerBankId' \in found \cup {FakeBankId}))]_vars

\* a dry run stands before a line it would create in a period and for a bank
\* account that do not exist, on a ledger that holds other records
C16_Witness ==
  /\ dryRun
  /\ pc = "dup_search"
  /\ stId = FakeStatementId
  /\ partnerBankId = FakeBankId
  /\ DupSearch(lines, Item.hash) = {}
  /\ lines # <<>>

\* C17: a run that finds the journal without a default account stops before
\* the transfers are fetched and before anything is created or written; a
\* run that finds the journal lacking only the suspense account warns and
\* goes on to the import.
C17_Preflight ==
  /\ (env.found /\ env.default_account_id = 0) =>
       (/\ pc = "exited"
        /\ byMonth = <<>>
        /\ Len(lines) = lines0
        /\ Len(statements) = sts0)
  /\ (/\ env.found
      /\ env.default_account_id # 0
      /\ env.suspense_account_id = 0
      /\ env.partnerAccounts) =>
       (warned /\ Running)

\* a run has stopped on a journal without default account, on a ledger an
\* earlier run filled
C17_Witness ==
  /\ pc = "exited"
  /\ env.found
  /\ env.default_account_id = 0
  /\ env.suspense_account_id = 2
  /\ env.partnerAccounts
  /\ lines # <<>>

\* a run that warned about the suspense account has fetched its transfers
\* and stands before the first call of the import
C17_WarnedAndImporting ==
  /\ pc = "st_search"
  /\ byMonth # <<>>
  /\ warned
  /\ env.suspense_account_id = 0

\* C18: on a client on which no authenticate() has succeeded, every data
\* operation ends with the error Not authenticated and sends no call to the
\* server, in dry-run mode and after a failed authenticate() as well.
C18_NotAuthenticated ==
  [][(client'.n # client.n /\ client'.op # "authenticate" /\ ~client.authed)
       => (client'.outcome = "Not authenticated" /\ client'.sent = client.sent)]_vars

\* findOrCreateBankAccount is refused on a dry-run client whose authenticate()
\* has failed
C18_Witness ==
  /\ client.dryRun
  /\ ~client.authed
  /\ client.sent = 1
  /\ client.n = 2
  /\ client.op = "findOrCreateBankAccount"
  /\ client.outcome = "Not authenticated"

\* C19: the counterparty's address is normalized before the lookup. While no
\* call of a real run has failed, the resolution of an address creates no
\* partner and no bank account when an account is on file whose number is
\* the address with its white space removed and its letters in upper case,
\* and answers with such an account; otherwise it creates exactly one, and
\* answers with it.
Canon(a) == [a EXCEPT !.form = "upper", !.ws = FALSE]
OnFile(bs, a) == { id \in DOMAIN bs : Canon(bs[id].acc_number) = Canon(a) }
RawAddress == toLowerCase(partnerAddress(Item))

C19_NormalizedLookup ==
  [][(/\ pc \in {"bank_find", "partner_find", "partner_create", "bank_create"}
      /\ ~dryRun
      /\ ~swallowed'
      /\ pc' # "aborted")
       => (IF OnFile(banks, RawAddress) # {}
           THEN /\ banks' = banks
                /\ partners' = partners
                /\ partnerBankId' \in OnFile(banks, RawAddress)
           ELSE /\ Len(banks') <= Len(banks) + 1
                /\ (pc = "bank_create"
                      => /\ Len(banks') = Len(banks) + 1
                         /\ OnFile(banks', RawAddress) = {partnerBankId'}))]_vars

\* the sender of h3, spelled as h3 spells it, has been resolved to the one
\* bank account created for the sender of h1
C19_Witness ==
  /\ pc = "dup_search"
  /\ ~dryRun
  /\ ~swallowed
  /\ Item.hash = "h3"
  /\ RawAddress.ws
  /\ DupSearch(lines, "h1") # {}
  /\ banks # <<>>
  /\ ~banks[1].acc_number.ws
  /\ OnFile(banks, RawAddress) = {partnerBankId}

\* C20: when the bank-account lookup or the partner lookup of a resolution
\* fails, the resolution ends there: it goes on to no further lookup and to
\* no create, and hands no bank-account id to main.
C20_LookupFailureReported ==
  [][(pc \in {"bank_find", "partner_find"} /\ ~swallowed /\ swallowed')
       => (/\ pc' \notin {"partner_find", "partner_create", "bank_create"}
           /\ partnerBankId' = 0)]_vars

\* what a failed bank-account lookup leads to: a second bank account with
\* the number of the first
C20_DuplicateCreated ==
  /\ Len(banks) = 2
  /\ banks[1].acc_number = banks[2].acc_number

\* C21 as claimed: the import of a transfer whose counterparty had no bank
\* account on file creates exactly one partner, exactly one bank account,
\* linked to that partner, and exactly one line, whatever the ledger held.
NoAccountBefore == { id \in 1..ev0.banks : banks[id].acc_number = Acc } = {}
UnknownBefore == { id \in 1..ev0.partners : partners[id].name = "Unknown" }

RECURSIVE Flatten(_)
Flatten(gs) == IF gs = <<>> THEN <<>> ELSE Head(gs).items \o Flatten(Tail(gs))

Orderings(txs) ==
  { [i \in DOMAIN txs |-> txs[f[i]]] :
      f \in { g \in [DOMAIN txs -> DOMAIN txs] :
                \A i, j \in DOMAIN txs : i # j => g[i] # g[j] } }

LineView(L, S) ==
  { [key |-> L[i].payment_ref, date |-> L[i].date, amount |-> L[i].amount,
     month |-> S[L[i].statement_id].name.monthKey] : i \in DOMAIN L }

C22_OrderIndependent ==
  (CleanDone /\ rel # "retry") =>
    \A q \in Orderings(Flatten(byMonth)) :
      LET ref == UninterruptedRun(PeriodsOf(SubSeq(statements, 1, sts0)),
                                  SubSeq(lines, 1, lines0), GroupByMonth(q))
      IN LineView(lines, statements) = LineView(ref.lines, ref.sts)

\* the same, for batches in which no two transfers have the same hash
C22_DistinctHashes ==
  (CleanDone /\ rel # "retry"
     /\ \A i, j \in DOMAIN Flatten(byMonth) :
          i # j => Flatten(byMonth)[i].hash # Flatten(byMonth)[j].hash)
    => C22_OrderIndependent

\* C23: the transfer-source client returns the empty list when the source
\* reports that no transfers exist, and raises an error for every other
\* failure reply: an HTTP status that is not OK, a reply of status 0 with
\* another message, a reply whose result is not a list.
NoTransfersReply(reply) ==
  reply.ok /\ reply.json /\ reply.status = "0" /\ reply.message = "No transactions found"

FailureReply(reply) ==
  \/ ~reply.ok
  \/ ~reply.json
  \/ reply.status = "0" /\ reply.message # "No transactions found"
  \/ ~Array_isArray(reply.result)

C23_EmptyIsNotAnError ==
  source # NoRequest =>
    /\ NoTransfersReply(source.reply) => (~source.thrown /\ source.value = "[]")
    /\ (FailureReply(source.reply) /\ ~NoTransfersReply(source.reply)) => source.thrown

\* C24: for a raw value whose amount in tokens is a double, parsing the
\* formatted value gives the raw value back; 10^18 of 18 decimals formats
\* to 1 and 100000000 of 6 decimals to 100.
C24_RoundTrip ==
  amounts.done =>
    /\ amounts.parsed = amounts.raw
    /\ (amounts.n = 1 /\ amounts.j = 0 /\ amounts.decimals = 18)
         => amounts.formatted = Number(<<1>>)
    /\ (amounts.n = 100 /\ amounts.j = 0 /\ amounts.decimals = 6)
         => amounts.formatted = Number(<<100>>)

\* the two examples, and the round trip of 1.5 tokens of 18 decimals
C24_Examples ==
  amounts.done =>
    /\ (amounts.n = 1 /\ amounts.j = 0 /\ amounts.decimals = 18)
         => amounts.formatted = Number(<<1>>)
    /\ (amounts.n = 100 /\ amounts.j = 0 /\ amounts.decimals = 6)
         => amounts.formatted = Number(<<100>>)
    /\ (amounts.n = 3 /\ amounts.j = 1 /\ amounts.decimals = 18)
         => amounts.parsed = amounts.raw

\* ------------------------------------------------------------ C25 ----
\* C25: the address handed to counterparty resolution is the one on the
\* other side of the transfer from the tracked wallet, whatever the letter
\* case of the addresses the source reports; the wallet is never resolved
\* as the counterparty of a transfer it sends to another address.
C25_OppositeSide ==
  pc = "bank_find" =>
    /\ Item.from.who = walletAddress.who => RawAddress.who = Item.to.who
    /\ Item.to.who = walletAddress.who => RawAddress.who = Item.from.who

\* the incoming transfers are resolved to their sender
C25_IncomingResolved ==
  (pc = "bank_find" /\ Item.to.who = walletAddress.who)
    => RawAddress.who = Item.from.who

\* ------------------------------------------------------------ C26 ----
\* C26: within one invocation at most one call to the ledger is outstanding
\* at any moment, through resolution, period creation, line creation and
\* closing: a call is sent only when the call before it has returned or
\* failed.
C26_OneCallOutstanding == \A i \in Invocations : race.inv[i].out <= 1

\* an invocation waits for the answer to button_post, after it has waited
\* for its period, its counterparty and its line
C26_Witness ==
  \E i \in Invocations :
    /\ race.inv[i].pc = "close_post"
    /\ race.inv[i].out = 1
    /\ race.inv[i].ri > Len(race.inv[i].batch)
    /\ race.count["h1"] > 0
    /\ race.banks > 0
    /\ race.periods # <<>>

\* ------------------------------------------------------------ C27 ----
\* C27: obtaining a period is a search followed by a create, and not one
\* step: two invocations can both find no period for the month and both
\* create one, so that the ledger holds two periods of one journal and
\* month. Two periods exist only when each invocation has created its own.
C27_SearchThenCreate ==
  /\ Len(race.periods) <= 2
  /\ Len(race.periods) = 2 =>
       /\ race.inv[1].stId # race.inv[2].stId
       /\ \A i \in Invocations :
            race.inv[i].stId \in {1, 2} /\ race.inv[i].pc \notin {"st_search", "st_create"}

\* two periods of the same journal and month
C27_Witness ==
  /\ Len(race.periods) = 2
  /\ \A i \in Invocations : race.inv[i].pc = "done"

\* ------------------------------------------------------------ C30 ----
\* C30: when two invocations import overlapping batches against the same
\* ledger with their calls interleaved, the ledger never holds two lines
\* with the same unique_import_id.
C30_AtMostOnce == \A h \in RaceHashes : race.count[h] <= 1

\* ------------------------------------------------------------ C28 ----
\* C28: close writes a closing balance only when the stored closing balance
\* of the period is unset, and then it writes round2(opening balance + sum
\* of the amounts of the period's lines) before it posts; when a closing
\* balance is set, close writes no balance and the stored value stays.
C28_BalanceWrittenWhenUnset ==
  [][\A id \in DOMAIN statements :
       /\ (\/ statements'[id].balance_end_real # statements[id].balance_end_real
           \/ statements'[id].end_set # statements[id].end_set)
            => (/\ pc = "close_write"
                /\ id = closeId
                /\ ~statements[id].end_set
                /\ statements'[id].end_set
                /\ statements'[id].balance_end_real
                     = ToFixed2(statements[id].balance_start
                                  + sumStatementLineAmounts(lines, id))
                /\ ~statements'[id].posted
                /\ pc' = "close_post")
       /\ (pc = "close_read" /\ id = closeId /\ statements[id].end_set)
            => (pc' \notin {"close_sum", "close_write"} /\ statements' = statements)]_vars

\* a balance other than zero has been written and the period is about to
\* be posted
C28_Witness ==
  /\ pc = "close_post"
  /\ closeId \in DOMAIN statements
  /\ statements[closeId].end_set
  /\ statements[closeId].balance_end_real # 0
  /\ ~statements[closeId].posted

\* close finds the closing balance set and goes on to post
C28_SetKept ==
  /\ pc = "close_post"
  /\ closeId \in DOMAIN statements
  /\ statements[closeId].posted
  /\ statements[closeId].balance_end_real # 0

\* ------------------------------------------------------------ C29 ----
\* C29: a run creates a period for a month only if the batch holds an event
\* of that month and the journal has no period for it yet; a month without
\* an event in the batch gets no new period, and the periods of past months
\* that were on file are closed by the sweep all the same.
C29_PeriodsForEventMonths ==
  /\ [][Len(statements') > Len(statements) =>
          (/\ pc = "st_create"
           /\ Len(statements') = Len(statements) + 1
           /\ LET M == statements'[Len(statements')].name.monthKey
              IN /\ M \in BatchMonths
                 /\ byMonth[mi].monthKey = M /\ byMonth[mi].items # <<>>
                 /\ \A id \in DOMAIN statements :
                      statements[id].journal_id = journalId => MonthOf(id) # M)]_vars
  /\ [](CleanDone =>
          \A id \in 1..sts0 :
            (MonthOf(id) < currentMonthKey /\ MonthOf(id) \notin BatchMonths)
              => IsPosted(id))

\* the run created the period of a month of its batch, created none for a
\* month without events, and the sweep closed a period that was on file for
\* a past month without events
C29_Witness ==
  /\ CleanDone
  /\ Len(statements) > sts0
  /\ \A id \in (sts0 + 1)..Len(statements) : MonthOf(id) \in BatchMonths
  /\ \E m \in 1..MaxMonth :
       m \notin BatchMonths /\ \A id \in DOMAIN statements : MonthOf(id) # m
  /\ \E id \in 1..sts0 :
       MonthOf(id) < currentMonthKey /\ MonthOf(id) \notin BatchMonths /\ IsPosted(id)

====
